---- MODULE Spec2Model ----
(***************************************************************************)
(* A model of image_to_mesh: the contour tracer, the Contour methods       *)
(* (smooth, simplify, scale), the contour pipeline and the mesh extruder.  *)
(*                                                                         *)
(* f32/f64 values are modelled as exact rationals <<n, d>> in lowest terms *)
(* with d > 0.  The marker NaN == <<0, 0>> stands for every non-finite     *)
(* float: in this code an infinity only ever arises from a division by     *)
(* zero and is turned into a NaN (inf - inf, 0 * inf, inf / inf) before    *)
(* any comparison reads it.  Rounding of finite values is not modelled.    *)
(***************************************************************************)
EXTENDS Integers, Sequences, FiniteSets, TLC

VARIABLES
    \* ---- find_contour_from_grayscale (contour.rs 147-267)
    image,              \* [<<x, y>> -> pixel value], the GrayImage
    width, height,      \* image.width(), image.height()
    threshold,          \* the threshold argument
    tpc,                \* position in the function: "idle", "search", "loop", "done"
    start_point,        \* Option<[u32; 2]>: <<>> is None, <<p>> is Some(p)
    contour,            \* the Contour being built
    current_direction,  \* LookDirection
    current_point,      \* [u32; 2]
    sanity_check,       \* the loop counter
    tresult,            \* "none", "Ok", "ErrNoStart", "ErrNoContour", "Panic"
    \* ---- Contour methods called on an arbitrary contour (contour.rs 51-106)
    orig,               \* the contour the first call was made on
    cself,              \* the receiver of the last call
    cret,               \* the value of the last call (the receiver of the next)
    call,               \* the last call: [op, arg, ok], op "none" before any
                        \* call, ok FALSE when the call panicked
    hist,               \* the calls made so far, in order
    \* ---- find_contour_from_transparency_with_offset and create_mesh_from_image
    ppc,                \* position in the pipeline
    params,             \* contour::Params with the image size, or lib Params
    found,              \* what the contour-finding callee returned: [ok, contour]
    pcontour,           \* the contour as it flows through the stages
    stages,             \* the stages applied so far, in order
    triangulation,      \* Vec<(usize, usize, usize)>
    side_i,             \* the side loop's i
    side_triangles, side_normals,
    mesh,               \* the Mesh being returned
    presult             \* "none", "Ok", "Err", "Panic"

tvars == <<image, width, height, threshold, tpc, start_point, contour,
           current_direction, current_point, sanity_check, tresult>>
cvars == <<orig, cself, cret, call, hist>>
pvars == <<ppc, params, found, pcontour, stages, triangulation, side_i,
           side_triangles, side_normals, mesh, presult>>
vars == <<tvars, cvars, pvars>>

----------------------------------------------------------------------------
(* Floats as exact rationals *)

NaN == <<0, 0>>

Abs(a) == IF a < 0 THEN -a ELSE a

RECURSIVE Gcd(_, _)
Gcd(a, b) == IF b = 0 THEN a ELSE Gcd(b, a % b)

Rat(n, d) ==
    IF d = 0 THEN NaN
    ELSE LET g == Gcd(Abs(n), Abs(d))
             s == IF d < 0 THEN -1 ELSE 1
         IN  <<(s * n) \div g, (s * d) \div g>>

IsNaN(r) == r[2] = 0
FromInt(i) == <<i, 1>>

RAdd(a, b) == IF IsNaN(a) \/ IsNaN(b) THEN NaN
              ELSE Rat(a[1] * b[2] + b[1] * a[2], a[2] * b[2])
RSub(a, b) == IF IsNaN(a) \/ IsNaN(b) THEN NaN
              ELSE Rat(a[1] * b[2] - b[1] * a[2], a[2] * b[2])
RMul(a, b) == IF IsNaN(a) \/ IsNaN(b) THEN NaN
              ELSE Rat(a[1] * b[1], a[2] * b[2])
\* x / 0 is +-inf or NaN: non-finite either way
RDiv(a, b) == IF IsNaN(a) \/ IsNaN(b) THEN NaN
              ELSE Rat(a[1] * b[2], a[2] * b[1])
\* a < b on floats: false when either is NaN
RLess(a, b) == ~IsNaN(a) /\ ~IsNaN(b) /\ a[1] * b[2] < b[1] * a[2]

Pt(x, y) == <<FromInt(x), FromInt(y)>>

----------------------------------------------------------------------------
(* Bounds of the model *)

\* fields of at least 2 x 2 and at most MaxCells cells
MaxCells == 9

Values == {0, 255}
Thresholds == {0, 128}

Cells(w, h) == (0..(w - 1)) \X (0..(h - 1))

\* a 14 x 14 field whose boundary is longer than its cell count: a block of
\* cells above the threshold, cut by diagonal rows of cells below it
StripedField ==
    [p \in Cells(14, 14) |->
        IF /\ p[1] \in 1..12 /\ p[2] \in 1..12
           /\ ~((p[1] - p[2]) % 3 = 0 /\ p[1] <= 11 /\ p[2] <= 11)
        THEN 255 ELSE 0]

\* contours of at most MaxLen points, at most MaxIter iterations of smooth() on
\* one contour, chains of at most MaxCalls calls
MaxLen == 4
MaxIter == 2
MaxCalls == 2

\* three collinear points and two off their line
GridPoints == {Pt(0, 0), Pt(1, 0), Pt(2, 0), Pt(1, 1), Pt(0, 1)}
Contours == UNION {[1..n -> GridPoints] : n \in 0..MaxLen}

\* comparison_angle: 0, pi/4, pi/2, 3pi/4 and an angle above pi
Angles == {"0", "pi/4", "pi/2", "3pi/4", "4"}
\* (width, height) for scale()
ScaleDims == {<<2, 3>>}

Dims == {d \in (2..MaxCells) \X (2..MaxCells) : d[1] * d[2] <= MaxCells}

----------------------------------------------------------------------------
(* find_contour_from_grayscale *)

NoCall == [op |-> "none", arg |-> 0, ok |-> TRUE]

Directions == {"Right", "Down", "Left", "Up"}

\* image.get_pixel panics outside the image; a u32 x - 1 at x = 0 panics in a
\* debug build and wraps to 2^32 - 1 in a release build, where the read that
\* follows it panics: -1 stands for both.
InImage(p) == p[1] >= 0 /\ p[1] < width /\ p[2] >= 0 /\ p[2] < height

ComparisonPoint(dir, x, y) ==
    CASE dir = "Right" -> <<x, y + 1>>
      [] dir = "Down"  -> <<x - 1, y>>
      [] dir = "Left"  -> <<x, y - 1>>
      [] dir = "Up"    -> <<x + 1, y>>

DiagonalPoint(dir, x, y) ==
    CASE dir = "Right" -> <<x + 1, y + 1>>
      [] dir = "Down"  -> <<x - 1, y + 1>>
      [] dir = "Left"  -> <<x - 1, y - 1>>
      [] dir = "Up"    -> <<x + 1, y - 1>>

StraightPoint(dir, x, y) ==
    CASE dir = "Right" -> <<x + 1, y>>
      [] dir = "Down"  -> <<x, y + 1>>
      [] dir = "Left"  -> <<x - 1, y>>
      [] dir = "Up"    -> <<x, y - 1>>

\* the direction taken with the diagonal move
RotateDirection(dir) ==
    CASE dir = "Right" -> "Down"
      [] dir = "Down"  -> "Left"
      [] dir = "Left"  -> "Up"
      [] dir = "Up"    -> "Right"

\* the direction taken when neither move is possible
PivotDirectionClockwise(dir) ==
    CASE dir = "Right" -> "Down"
      [] dir = "Down"  -> "Left"
      [] dir = "Left"  -> "Up"
      [] dir = "Up"    -> "Right"
PivotDirection(dir) ==
    CASE dir = "Right" -> "Up"
      [] dir = "Down"  -> "Right"
      [] dir = "Left"  -> "Down"
      [] dir = "Up"    -> "Left"

\* enumerate_pixels(): the k-th pixel visited, rows top to bottom, each left to right
PixelAtColumnMajor(k) == <<k \div height, k % height>>
PixelAt(k) == <<k % width, k \div width>>

\* lines 151-160: the scan from the k-th pixel on; <<>> is None, <<p>> is Some(p)
RECURSIVE ScanFrom(_)
ScanFrom(k) ==
    IF k >= width * height THEN <<>>
    ELSE LET p == PixelAt(k)
         IN  IF p[2] = height - 1 THEN ScanFrom(k + 1)
             ELSE IF image[p] <= threshold /\ image[<<p[1], p[2] + 1>>] > threshold
                  THEN <<p>>
                  ELSE ScanFrom(k + 1)

\* lines 197-200
Ratio(v0, v1) ==
    LET outside_val == FromInt(v0 - threshold)
        inside_val == FromInt(v1 - threshold)
    IN  RDiv(outside_val, RSub(outside_val, inside_val))

\* lines 194-202
NewPoint(x, y, cp, v0, v1) ==
    LET ratio == Ratio(v0, v1)
        one_minus == RSub(FromInt(1), ratio)
    IN  <<RAdd(RMul(FromInt(x), ratio), RMul(FromInt(cp[1]), one_minus)),
          RAdd(RMul(FromInt(y), ratio), RMul(FromInt(cp[2]), one_minus))>>

max_iterations == width * height

cx == current_point[1]
cy == current_point[2]
comparison_point == ComparisonPoint(current_direction, cx, cy)
diagonal_point == DiagonalPoint(current_direction, cx, cy)
straight_point == StraightPoint(current_direction, cx, cy)
pushed == Append(contour, NewPoint(cx, cy, comparison_point,
                                   image[current_point], image[comparison_point]))

TraceInit ==
    /\ \/ /\ \E d \in Dims :
                /\ width = d[1]
                /\ height = d[2]
                /\ image \in [Cells(d[1], d[2]) -> Values]
          /\ threshold \in Thresholds
       \/ /\ width = 14
          /\ height = 14
          /\ image = StripedField
          /\ threshold = 128
    /\ tpc = "search"
    /\ start_point = <<>>
    /\ contour = <<>>
    /\ current_direction = "Right"
    /\ current_point = <<0, 0>>
    /\ sanity_check = 0
    /\ tresult = "none"
    /\ orig = <<>> /\ cself = <<>> /\ cret = <<>> /\ hist = <<>>
    /\ call = NoCall
    /\ ppc = "idle" /\ params = <<>> /\ found = <<>> /\ pcontour = <<>>
    /\ stages = <<>> /\ triangulation = <<>> /\ side_i = 0
    /\ side_triangles = <<>> /\ side_normals = <<>> /\ mesh = <<>>
    /\ presult = "none"

\* lines 149-164: no start point
SearchFails ==
    /\ UNCHANGED <<cvars, pvars>>
    /\ tpc = "search"
    /\ ScanFrom(0) = <<>>
    /\ tpc' = "done"
    /\ tresult' = "ErrNoStart"
    /\ UNCHANGED <<image, width, height, threshold, start_point, contour,
                   current_direction, current_point, sanity_check>>

\* lines 149-173: a start point is found
SearchFinds ==
    /\ UNCHANGED <<cvars, pvars>>
    /\ tpc = "search"
    /\ ScanFrom(0) # <<>>
    /\ start_point' = ScanFrom(0)
    /\ current_point' = ScanFrom(0)[1]
    /\ current_direction' = "Right"
    /\ contour' = <<>>
    /\ sanity_check' = 0
    /\ tpc' = "loop"
    /\ UNCHANGED <<image, width, height, threshold, tresult>>

\* the loop body is entered: the counter is within the cap, the trace not closed
InBody ==
    /\ tpc = "loop"
    /\ sanity_check + 1 <= max_iterations
    /\ ~(Len(contour) > 0 /\ current_point = start_point[1])

\* lines 177-181
CapExceeded ==
    /\ UNCHANGED <<cvars, pvars>>
    /\ tpc = "loop"
    /\ sanity_check + 1 > max_iterations
    /\ sanity_check' = sanity_check + 1
    /\ tpc' = "done"
    /\ tresult' = "ErrNoContour"
    /\ UNCHANGED <<image, width, height, threshold, start_point, contour,
                   current_direction, current_point>>

\* lines 184, 266
BackAtStart ==
    /\ UNCHANGED <<cvars, pvars>>
    /\ tpc = "loop"
    /\ sanity_check + 1 <= max_iterations
    /\ Len(contour) > 0 /\ current_point = start_point[1]
    /\ sanity_check' = sanity_check + 1
    /\ tpc' = "done"
    /\ tresult' = "Ok"
    /\ UNCHANGED <<image, width, height, threshold, start_point, contour,
                   current_direction, current_point>>

\* a read is outside the image: the comparison cell's (line 195), the first of
\* the match arm (lines 208, 222, 236, 250) or its second (lines 213, 227, 241,
\* 255); the point is pushed (line 204) between the first and the other two
PanicOutside ==
    /\ UNCHANGED <<cvars, pvars>>
    /\ InBody
    /\ ~(/\ InImage(comparison_point)
         /\ InImage(diagonal_point)
         /\ (image[diagonal_point] > threshold => InImage(straight_point)))
    /\ sanity_check' = sanity_check + 1
    /\ contour' = IF InImage(comparison_point) THEN pushed ELSE contour
    /\ tpc' = "done"
    /\ tresult' = "Panic"
    /\ UNCHANGED <<image, width, height, threshold, start_point,
                   current_direction, current_point>>

\* rotate and move diagonally (lines 208-212, 222-226, 236-240, 250-254)
StepRotate ==
    /\ UNCHANGED <<cvars, pvars>>
    /\ InBody
    /\ InImage(comparison_point)
    /\ InImage(diagonal_point)
    /\ image[diagonal_point] <= threshold
    /\ sanity_check' = sanity_check + 1
    /\ contour' = pushed
    /\ current_direction' = RotateDirection(current_direction)
    /\ current_point' = diagonal_point
    /\ UNCHANGED <<image, width, height, threshold, start_point, tpc, tresult>>

\* move straight (lines 213-216, 227-230, 241-244, 255-258)
StepStraight ==
    /\ UNCHANGED <<cvars, pvars>>
    /\ InBody
    /\ InImage(comparison_point)
    /\ InImage(diagonal_point)
    /\ image[diagonal_point] > threshold
    /\ InImage(straight_point)
    /\ image[straight_point] <= threshold
    /\ sanity_check' = sanity_check + 1
    /\ contour' = pushed
    /\ current_point' = straight_point
    /\ UNCHANGED <<image, width, height, threshold, start_point, tpc, tresult,
                   current_direction>>

\* pivot (lines 218-219, 232-233, 246-247, 260-261)
StepPivot ==
    /\ UNCHANGED <<cvars, pvars>>
    /\ InBody
    /\ InImage(comparison_point)
    /\ InImage(diagonal_point)
    /\ image[diagonal_point] > threshold
    /\ InImage(straight_point)
    /\ image[straight_point] > threshold
    /\ sanity_check' = sanity_check + 1
    /\ contour' = pushed
    /\ current_direction' = PivotDirection(current_direction)
    /\ UNCHANGED <<image, width, height, threshold, start_point, tpc, tresult,
                   current_point>>

TraceNext ==
    \/ SearchFails
    \/ SearchFinds
    \/ CapExceeded
    \/ BackAtStart
    \/ PanicOutside
    \/ StepRotate
    \/ StepStraight
    \/ StepPivot

SpecTrace == TraceInit /\ [][TraceNext]_vars

----------------------------------------------------------------------------
(* Properties of find_contour_from_grayscale *)

\* a vertical crossing at q: q is at or below the threshold, the cell below it above
Crossing(q) ==
    /\ q[2] + 1 < height
    /\ image[q] <= threshold
    /\ image[<<q[1], q[2] + 1>>] > threshold

\* C3: whenever the tracer returns Ok, the contour has at least 3 points
C3_OkHasThreePoints == tresult = "Ok" => Len(contour) >= 3

\* C5: the loop ends within width * height steps, by returning the contour (back
\* at the start cell) or, past the cap, the error; it emits at most width * height
\* points
C5_EndsWithinCap ==
    /\ Len(contour) <= max_iterations
    /\ sanity_check <= max_iterations + 1
    /\ (tpc = "done" /\ start_point # <<>>) =>
          \/ tresult = "Ok" /\ current_point = start_point[1]
                            /\ sanity_check <= max_iterations
          \/ tresult = "ErrNoContour" /\ sanity_check > max_iterations

\* the part of C5 that is about the cap alone: the counter and the number of
\* points never pass it, and the error is returned exactly when it is passed
CapBoundsTheLoop ==
    /\ Len(contour) <= max_iterations
    /\ sanity_check <= max_iterations + 1
    /\ tresult = "ErrNoContour" <=> sanity_check > max_iterations

\* C6: the start point is the first vertical crossing in row-major order, the
\* last row excluded; without one the tracer returns the no-start error and has
\* emitted no point
C6_StartIsFirstCrossing ==
    /\ tpc # "search" =>
          IF \E q \in Cells(width, height) : Crossing(q)
          THEN /\ start_point # <<>>
               /\ Crossing(start_point[1])
               /\ \A q \in Cells(width, height) :
                     Crossing(q) =>
                        \/ q[2] > start_point[1][2]
                        \/ q[2] = start_point[1][2] /\ q[1] >= start_point[1][1]
               /\ tresult # "ErrNoStart"
          ELSE /\ start_point = <<>>
               /\ tresult = "ErrNoStart"
               /\ contour = <<>>
    /\ tpc = "search" => start_point = <<>> /\ contour = <<>>

\* a start point below the first row, right of a crossing in a later row
C6_Witness ==
    /\ tpc = "loop"
    /\ start_point[1][2] >= 1
    /\ \E q \in Cells(width, height) :
          Crossing(q) /\ q[1] < start_point[1][1] /\ q[2] > start_point[1][2]

\* C11: every cell the tracer reads (current, comparison, diagonal, straight
\* ahead) is inside the image and no x - 1 or y - 1 goes below zero: the tracer
\* ends by returning a contour or one of its two errors, never by a panic
C11_ReadsInsideImage ==
    /\ tresult # "Panic"
    /\ InBody =>
          /\ InImage(current_point)
          /\ InImage(comparison_point)
          /\ InImage(diagonal_point)
          /\ (image[diagonal_point] > threshold => InImage(straight_point))

\* where the linear interpolation of v0 at cell cur and v1 at cell cmp equals
\* the threshold: cur + s * (cmp - cur) with s = (threshold - v0) / (v1 - v0)
ThresholdCrossing(cur, cmp, v0, v1) ==
    LET s == RDiv(FromInt(threshold - v0), FromInt(v1 - v0))
    IN  <<RAdd(FromInt(cur[1]), RMul(s, FromInt(cmp[1] - cur[1]))),
          RAdd(FromInt(cur[2]), RMul(s, FromInt(cmp[2] - cur[2])))>>

\* C12: each point emitted is the point of the segment from the current cell to
\* the comparison cell where the linear interpolation of the two cell values
\* equals the threshold (the current cell itself when its value is the threshold)
C12_PointAtThresholdCrossing ==
    [][contour' # contour =>
          contour'[Len(contour')] =
              ThresholdCrossing(current_point, comparison_point,
                                image[current_point], image[comparison_point])]_vars

\* C13: at every step of a trace the current cell is at or below the threshold
\* and the comparison cell above it, so the interpolation ratio is in [0, 1) and
\* no emitted point is NaN or infinite
C13_CurrentBelowComparisonAbove ==
    /\ tpc = "loop" =>
          /\ InImage(current_point)
          /\ InImage(comparison_point)
          /\ image[current_point] <= threshold
          /\ image[comparison_point] > threshold
          /\ LET ratio == Ratio(image[current_point], image[comparison_point])
             IN  /\ ~IsNaN(ratio)
                 /\ ~RLess(ratio, FromInt(0))
                 /\ RLess(ratio, FromInt(1))
    /\ \A k \in DOMAIN contour : ~IsNaN(contour[k][1]) /\ ~IsNaN(contour[k][2])

\* a trace that has emitted points, turned and left its start cell
C13_Witness ==
    /\ tpc = "loop"
    /\ Len(contour) >= 4
    /\ current_direction = "Left"
    /\ current_point # start_point[1]
    /\ image[current_point] <= threshold
    /\ image[comparison_point] > threshold

----------------------------------------------------------------------------
(* Contour::smooth, Contour::simplify, Contour::scale *)

\* lines 59-66: one iteration
SmoothOnce(c) ==
    LET n == Len(c)
        three == FromInt(3)
    IN  [i \in 1..n |->
            LET prev == c[((i - 1 + n - 1) % n) + 1]
                current == c[i]
                next == c[(i % n) + 1]
            IN  <<RDiv(RAdd(RAdd(prev[1], current[1]), next[1]), three),
                  RDiv(RAdd(RAdd(prev[2], current[2]), next[2]), three)>>]

RECURSIVE SmoothOneTooMany(_, _)
SmoothOneTooMany(c, iterations) ==
    IF iterations = 0 THEN SmoothOnce(c)
    ELSE SmoothOneTooMany(SmoothOnce(c), iterations - 1)

\* lines 51-71
RECURSIVE Smooth(_, _)
Smooth(c, iterations) ==
    IF iterations = 0 THEN c ELSE Smooth(SmoothOnce(c), iterations - 1)

Sub(a, b) == <<RSub(a[1], b[1]), RSub(a[2], b[2])>>

\* a positive multiple of the finite vector v with integer components
Direction(v) ==
    LET l == (v[1][2] * v[2][2]) \div Gcd(v[1][2], v[2][2])
        x == v[1][1] * (l \div v[1][2])
        y == v[2][1] * (l \div v[2][2])
        g == Gcd(Abs(x), Abs(y))
    IN  IF g = 0 THEN <<0, 0>> ELSE <<x \div g, y \div g>>

\* lines 85-89: (angle - PI).abs() < comparison_angle, for angle the acos of the
\* dot product d of normalize(a) and normalize(b).  normalize divides by the
\* norm, so d is the same for any positive multiples of a and b, and it is
\* NaN when either is the zero vector; every comparison with NaN is false.
\* The test is acos(d) > pi - eps, that is d < -cos(eps), decided on the squares.
NearStraight(a, b, eps) ==
    /\ ~(IsNaN(a[1]) \/ IsNaN(a[2]) \/ IsNaN(b[1]) \/ IsNaN(b[2]))
    /\ LET u == Direction(a)
           v == Direction(b)
           dot == u[1] * v[1] + u[2] * v[2]
           nn == (u[1] * u[1] + u[2] * u[2]) * (v[1] * v[1] + v[2] * v[2])
       IN  /\ nn # 0
           /\ CASE eps = "0"     -> FALSE
                 [] eps = "pi/4"  -> dot < 0 /\ 2 * dot * dot > nn
                 [] eps = "pi/2"  -> dot < 0
                 [] eps = "3pi/4" -> dot < 0 \/ 2 * dot * dot < nn
                 [] eps = "4"     -> TRUE

\* lines 79-95: should_be_deleted after the pass over i .. n_points, with
\* current_prev_point the running reference point (1-based i)
RECURSIVE MarkFromAlwaysAdvance(_, _, _, _, _)
MarkFromAlwaysAdvance(c, eps, i, current_prev_point, should_be_deleted) ==
    IF i > Len(c) THEN should_be_deleted
    ELSE LET current_point_i == c[i]
             next_point == c[(i % Len(c)) + 1]
         IN  IF NearStraight(Sub(next_point, current_point_i),
                             Sub(current_prev_point, current_point_i), eps)
             THEN MarkFromAlwaysAdvance(c, eps, i + 1, current_point_i,
                                        [should_be_deleted EXCEPT ![i] = TRUE])
             ELSE MarkFromAlwaysAdvance(c, eps, i + 1, current_point_i,
                                        should_be_deleted)
RECURSIVE MarkFrom(_, _, _, _, _)
MarkFrom(c, eps, i, current_prev_point, should_be_deleted) ==
    IF i > Len(c) THEN should_be_deleted
    ELSE LET current_point_i == c[i]
             next_point == c[(i % Len(c)) + 1]
         IN  IF NearStraight(Sub(next_point, current_point_i),
                             Sub(current_prev_point, current_point_i), eps)
             THEN MarkFrom(c, eps, i + 1, current_prev_point,
                           [should_be_deleted EXCEPT ![i] = TRUE])
             ELSE MarkFrom(c, eps, i + 1, current_point_i, should_be_deleted)

ShouldBeDeleted(c, eps) ==
    MarkFrom(c, eps, 1, c[Len(c)], [i \in 1..Len(c) |-> FALSE])

\* the elements of c at the indices where keep is TRUE, in order
RECURSIVE FilterBy(_, _, _)
FilterBy(c, keep, i) ==
    IF i > Len(c) THEN <<>>
    ELSE (IF keep[i] THEN <<c[i]>> ELSE <<>>) \o FilterBy(c, keep, i + 1)

\* lines 73-102, for n_points >= 1: the filter of line 99 keeps the points
\* whose should_be_deleted is true
Simplify(c, eps) == FilterBy(c, ShouldBeDeleted(c, eps), 1)

\* lines 104-106
Scale(c, w, h) ==
    [i \in 1..Len(c) |-> <<RDiv(c[i][1], FromInt(w)), RDiv(c[i][2], FromInt(h))>>]

ContourInit ==
    /\ orig \in Contours
    /\ cself = orig /\ cret = orig /\ hist = <<>>
    /\ call = NoCall
    /\ image = <<>> /\ width = 0 /\ height = 0 /\ threshold = 0
    /\ tpc = "idle" /\ start_point = <<>> /\ contour = <<>>
    /\ current_direction = "Right" /\ current_point = <<0, 0>>
    /\ sanity_check = 0 /\ tresult = "none"
    /\ ppc = "idle" /\ params = <<>> /\ found = <<>> /\ pcontour = <<>>
    /\ stages = <<>> /\ triangulation = <<>> /\ side_i = 0
    /\ side_triangles = <<>> /\ side_normals = <<>> /\ mesh = <<>>
    /\ presult = "none"

\* the iterations of a chain of smooth() calls
RECURSIVE SumArgs(_)
SumArgs(h) == IF h = <<>> THEN 0 ELSE h[1].arg + SumArgs(Tail(h))

OnlySmooth(h) == \A i \in DOMAIN h : h[i].op = "smooth"

\* a further call is made on the value of a chain of smooth() calls of at most
\* MaxIter iterations together
MayCall ==
    /\ Len(hist) < MaxCalls
    /\ call.ok
    /\ call.op \in {"none", "smooth"}

Called(c) ==
    /\ call' = c
    /\ hist' = Append(hist, c)
    /\ cself' = cret
    /\ UNCHANGED <<orig, tvars, pvars>>

CallSmooth ==
    \E k \in 0..MaxIter :
        /\ MayCall
        /\ SumArgs(hist) + k <= MaxIter
        /\ cret' = Smooth(cret, k)
        /\ Called([op |-> "smooth", arg |-> k, ok |-> TRUE])

CallSimplify ==
    \E eps \in Angles :
        /\ MayCall
        /\ Len(cret) > 0
        /\ cret' = Simplify(cret, eps)
        /\ Called([op |-> "simplify", arg |-> eps, ok |-> TRUE])

\* line 80 on an empty contour: n_points - 1 overflows (a panic in a debug
\* build) and the index that follows is out of range (a panic in any build)
CallSimplifyEmpty ==
    \E eps \in Angles :
        /\ MayCall
        /\ Len(cret) = 0
        /\ cret' = cret
        /\ Called([op |-> "simplify", arg |-> eps, ok |-> FALSE])

CallScale ==
    \E d \in ScaleDims :
        /\ MayCall
        /\ cret' = Scale(cret, d[1], d[2])
        /\ Called([op |-> "scale", arg |-> d, ok |-> TRUE])

ContourNext ==
    \/ CallSmooth
    \/ CallSimplify
    \/ CallSimplifyEmpty
    \/ CallScale

SpecContour == ContourInit /\ [][ContourNext]_vars

----------------------------------------------------------------------------
(* Properties of the Contour methods *)

\* C1: simplify(eps) returns exactly the points its marking pass did not mark,
\* in their original order; for eps = 0 the output is the input
C1_SimplifyKeepsUnmarked ==
    (call.op = "simplify" /\ call.ok) =>
        /\ cret = FilterBy(cself,
                           [i \in 1..Len(cself) |->
                               ~ShouldBeDeleted(cself, call.arg)[i]], 1)
        /\ call.arg = "0" => cret = cself

\* C9: smooth(0) returns its input; smooth(a) followed by smooth(b) gives what
\* smooth(a + b) gives on the first input; the point count never changes
C9_SmoothComposes ==
    /\ (call.op = "smooth" /\ call.arg = 0) => cret = cself
    /\ call.op = "smooth" => Len(cret) = Len(cself)
    /\ (hist # <<>> /\ OnlySmooth(hist)) =>
          /\ cret = Smooth(orig, SumArgs(hist))
          /\ Len(cret) = Len(orig)

\* two smooth calls of at least one iteration each, on a contour both move
C9_Witness ==
    /\ Len(hist) = 2
    /\ OnlySmooth(hist)
    /\ hist[1].arg >= 1 /\ hist[2].arg >= 1
    /\ Len(orig) = 4
    /\ cself # orig
    /\ cret # cself

\* the index of the point that point i's test must be made against: the last
\* point before i that the marks m keep, the last point of the contour if none
ReferenceIndex(m, i) ==
    LET kept == {j \in 1..(i - 1) : ~m[j]}
    IN  IF kept = {} THEN Len(m)
        ELSE CHOOSE j \in kept : \A k \in kept : k <= j

\* whether point i of c is near straight between its next point and point r
TestAgainst(c, i, r, eps) ==
    NearStraight(Sub(c[(i % Len(c)) + 1], c[i]), Sub(c[r], c[i]), eps)

\* C15: in simplify's pass, point i is tested against the most recent earlier
\* point that was kept, or against the last point when none was kept yet; a
\* point marked for deletion is never the reference of a later test
C15_ReferenceIsLastKept ==
    (call.op = "simplify" /\ call.ok) =>
        LET m == ShouldBeDeleted(cself, call.arg)
        IN  \A i \in 1..Len(cself) :
                /\ ~m[ReferenceIndex(m, i)] \/ ReferenceIndex(m, i) = Len(cself)
                /\ m[i] <=> TestAgainst(cself, i, ReferenceIndex(m, i), call.arg)

\* a simplify call where the point before i was marked and the test of i
\* against that point would have gone the other way
C15_Witness ==
    /\ call.op = "simplify" /\ call.ok
    /\ LET m == ShouldBeDeleted(cself, call.arg)
       IN  \E i \in 2..Len(cself) :
               /\ m[i - 1]
               /\ ReferenceIndex(m, i) < i - 1
               /\ TestAgainst(cself, i, i - 1, call.arg)
                    # TestAgainst(cself, i, ReferenceIndex(m, i), call.arg)

----------------------------------------------------------------------------
(* find_contour_from_transparency_with_offset *)

\* what find_contour_from_grayscale(&sdf, 128u8) returns on the field that the
\* signed-distance transform makes of the image: an error, or a contour of at
\* least one point (the loop pushes before it can break)
TraceResults ==
    {[ok |-> FALSE, contour |-> <<>>]}
    \cup {[ok |-> TRUE, contour |-> c] : c \in {d \in Contours : Len(d) >= 1}}

\* contour::Params; (width, height) are img.dimensions()
ContourParams ==
    [smooth_iterations : 0..MaxIter, simplify_angle : Angles, dims : ScaleDims]

\* the method chain of contour.rs 140-144: the stage that follows each stage
StageAfterSimplifyFirst(stage) ==
    CASE stage = "trace"    -> "smooth"
      [] stage = "smooth"   -> "simplify"
      [] stage = "simplify" -> "scale"
      [] stage = "scale"    -> "return"

StageAfter(stage) ==
    CASE stage = "trace"    -> "smooth"
      [] stage = "smooth"   -> "scale"
      [] stage = "scale"    -> "simplify"
      [] stage = "simplify" -> "return"

PipeInit ==
    /\ ppc = "trace"
    /\ params \in ContourParams
    /\ found \in TraceResults
    /\ pcontour = <<>>
    /\ stages = <<>> /\ triangulation = <<>> /\ side_i = 0
    /\ side_triangles = <<>> /\ side_normals = <<>> /\ mesh = <<>>
    /\ presult = "none"
    /\ image = <<>> /\ width = 0 /\ height = 0 /\ threshold = 0
    /\ tpc = "idle" /\ start_point = <<>> /\ contour = <<>>
    /\ current_direction = "Right" /\ current_point = <<0, 0>>
    /\ sanity_check = 0 /\ tresult = "none"
    /\ orig = <<>> /\ cself = <<>> /\ cret = <<>> /\ hist = <<>>
    /\ call = NoCall

PipeFrame ==
    UNCHANGED <<tvars, cvars, params, found, triangulation, side_i,
                side_triangles, side_normals, mesh>>

\* line 141: the tracer's error is returned by `?`
TraceFails ==
    /\ ppc = "trace"
    /\ ~found.ok
    /\ ppc' = "done"
    /\ presult' = "Err"
    /\ PipeFrame
    /\ UNCHANGED <<pcontour, stages>>

\* line 141
TraceReturns ==
    /\ ppc = "trace"
    /\ found.ok
    /\ pcontour' = found.contour
    /\ stages' = Append(stages, "trace")
    /\ ppc' = StageAfter("trace")
    /\ PipeFrame
    /\ UNCHANGED presult

\* line 142
StageSmooth ==
    /\ ppc = "smooth"
    /\ pcontour' = Smooth(pcontour, params.smooth_iterations)
    /\ stages' = Append(stages, "smooth")
    /\ ppc' = StageAfter("smooth")
    /\ PipeFrame
    /\ UNCHANGED presult

\* line 143
StageScale ==
    /\ ppc = "scale"
    /\ pcontour' = Scale(pcontour, params.dims[1], params.dims[2])
    /\ stages' = Append(stages, "scale")
    /\ ppc' = StageAfter("scale")
    /\ PipeFrame
    /\ UNCHANGED presult

\* line 144; the contour has a point here, so line 80 does not panic
StageSimplify ==
    /\ ppc = "simplify"
    /\ pcontour' = Simplify(pcontour, params.simplify_angle)
    /\ stages' = Append(stages, "simplify")
    /\ ppc' = StageAfter("simplify")
    /\ PipeFrame
    /\ UNCHANGED presult

\* line 140: Ok(...)
PipeReturns ==
    /\ ppc = "return"
    /\ ppc' = "done"
    /\ presult' = "Ok"
    /\ PipeFrame
    /\ UNCHANGED <<pcontour, stages>>

PipeNext ==
    \/ TraceFails
    \/ TraceReturns
    \/ StageSmooth
    \/ StageScale
    \/ StageSimplify
    \/ PipeReturns

SpecPipe == PipeInit /\ [][PipeNext]_vars

----------------------------------------------------------------------------
(* Properties of find_contour_from_transparency_with_offset *)

IsPrefix(a, b) == Len(a) <= Len(b) /\ a = SubSeq(b, 1, Len(a))

\* C2 as claimed: the stages run in the order trace, smooth, simplify, scale,
\* each once
C2_SimplifyBeforeScale ==
    /\ IsPrefix(stages, <<"trace", "smooth", "simplify", "scale">>)
    /\ presult = "Ok" => stages = <<"trace", "smooth", "simplify", "scale">>

\* C2 as amended: the stages run in the order trace, smooth, scale, simplify,
\* each once, and the contour returned is the traced one smoothed, then
\* scaled, then simplified
C2_ScaleBeforeSimplify ==
    /\ IsPrefix(stages, <<"trace", "smooth", "scale", "simplify">>)
    /\ presult = "Ok" =>
          /\ stages = <<"trace", "smooth", "scale", "simplify">>
          /\ pcontour =
                Simplify(Scale(Smooth(found.contour, params.smooth_iterations),
                               params.dims[1], params.dims[2]),
                         params.simplify_angle)

\* a run that returned a contour which simplifying before scaling would not give
C2_Witness ==
    /\ presult = "Ok"
    /\ Len(stages) = 4
    /\ Len(pcontour) >= 1
    /\ LET smoothed == Smooth(found.contour, params.smooth_iterations)
       IN  pcontour # Scale(Simplify(smoothed, params.simplify_angle),
                            params.dims[1], params.dims[2])

----------------------------------------------------------------------------
(* create_mesh_from_image *)

\* the corners of the unit square
SquarePoints == {Pt(0, 0), Pt(1, 0), Pt(1, 1), Pt(0, 1)}

\* what find_contour_from_transparency_with_offset returns: an error, or a
\* contour (simplify can return any number of points, none included)
ContourResults ==
    {[ok |-> FALSE, contour |-> <<>>]}
    \cup {[ok |-> TRUE, contour |-> c] :
            c \in UNION {[1..n -> SquarePoints] : n \in 0..MaxLen}}

\* lib.rs Params, without the contour_params that the callee consumed
MeshParams == [thickness : {Rat(1, 20)}, include_uvs : BOOLEAN]

n_points == Len(pcontour)

\* Primitive::Triangle of three (vertex, Some(texture), Some(normal)) indices
Corner(v, vt, vn) == <<v, vt, vn>>

\* lib.rs 134-140
triangle_from_indices(v0, v1, v2) ==
    <<Corner(v0, v0, v0), Corner(v1, v1, v1), Corner(v2, v2, v2)>>

\* lib.rs 49-50, for one triangle t of the triangulation
FrontTriangleSameWinding(t) == triangle_from_indices(t[1], t[2], t[3])
FrontTriangle(t) == triangle_from_indices(t[1], t[3], t[2])

\* lib.rs 52-53
BackTriangle(t, n) == triangle_from_indices(t[1] + n, t[2] + n, t[3] + n)

\* lib.rs 45
FrontVertex(p) ==
    [x |-> RSub(Rat(1, 2), p[1]), y |-> RSub(Rat(1, 2), p[2]), z |-> FromInt(0)]

\* lib.rs 46
BackVertexAtZero(p, thickness) ==
    [x |-> RSub(Rat(1, 2), p[1]), y |-> RSub(Rat(1, 2), p[2]), z |-> FromInt(0)]
BackVertex(p, thickness) ==
    [x |-> RSub(Rat(1, 2), p[1]), y |-> RSub(Rat(1, 2), p[2]), z |-> thickness]

\* lib.rs 60-61
UvVertex(p) == [u |-> p[1], v |-> RSub(FromInt(1), p[2]), w |-> FromInt(0)]

\* lib.rs 78-85, for the 0-based i of the side loop
SideTrianglesOf(i, n) ==
    LET next == (i + 1) % n
    IN  <<<<Corner(i, i, i + 2 * n),
            Corner(next + n, next + n, next + 2 * n),
            Corner(i + n, i + n, i + 2 * n)>>,
          <<Corner(i, i, i + 2 * n),
            Corner(next, next, next + 2 * n),
            Corner(next + n, next + n, next + 2 * n)>>>>

\* lib.rs 108-112: v / len is the unit vector along v1 - v0, held as the
\* integer direction it points in; <<0, 0>> stands for the NaN pair that a
\* zero or non-finite v gives
normal_of_line(v0, v1) ==
    LET v == Sub(v1, v0)
    IN  IF IsNaN(v[1]) \/ IsNaN(v[2]) THEN <<0, 0>> ELSE Direction(v)

\* lib.rs 87-95: the side normal of the 0-based point i, held as the two unit
\* vectors normal_0 and normal_1 whose half sum it is, with its z
SideNormalOf(c, i) ==
    LET n == Len(c)
        prev == IF i = 0 THEN n - 1 ELSE i - 1
        next == (i + 1) % n
    IN  [normal_0 |-> normal_of_line(c[prev + 1], c[i + 1]),
         normal_1 |-> normal_of_line(c[i + 1], c[next + 1]),
         z |-> FromInt(0)]

\* what remains of the sequence ring without its j-th element
Without(ring, j) == SubSeq(ring, 1, j - 1) \o SubSeq(ring, j + 1, Len(ring))

\* lib.rs 48: the triangle sequences that clipping ears off the ring of point
\* indices can yield; which corner is an ear is the polygon's geometry, left
\* open here, and each ear is (previous, corner, next) in the ring's order
RECURSIVE EarClips(_)
EarClips(ring) ==
    IF Len(ring) = 3 THEN {<<ring>>}
    ELSE UNION {
            {<<<<ring[IF j = 1 THEN Len(ring) ELSE j - 1], ring[j],
                 ring[(j % Len(ring)) + 1]>>>> \o rest :
                rest \in EarClips(Without(ring, j))} :
            j \in 1..Len(ring)}

MeshInit ==
    /\ ppc = "contour"
    /\ params \in MeshParams
    /\ found \in ContourResults
    /\ pcontour = <<>>
    /\ stages = <<>> /\ triangulation = <<>> /\ side_i = 0
    /\ side_triangles = <<>> /\ side_normals = <<>> /\ mesh = <<>>
    /\ presult = "none"
    /\ image = <<>> /\ width = 0 /\ height = 0 /\ threshold = 0
    /\ tpc = "idle" /\ start_point = <<>> /\ contour = <<>>
    /\ current_direction = "Right" /\ current_point = <<0, 0>>
    /\ sanity_check = 0 /\ tresult = "none"
    /\ orig = <<>> /\ cself = <<>> /\ cret = <<>> /\ hist = <<>>
    /\ call = NoCall

MeshFrame == UNCHANGED <<tvars, cvars, params, found, stages>>

\* lib.rs 39: the callee's error is returned by `?`
ContourFails ==
    /\ ppc = "contour"
    /\ ~found.ok
    /\ ppc' = "done"
    /\ presult' = "Err"
    /\ MeshFrame
    /\ UNCHANGED <<pcontour, triangulation, side_i, side_triangles,
                   side_normals, mesh>>

\* lib.rs 39-41
ContourFound ==
    /\ ppc = "contour"
    /\ found.ok
    /\ pcontour' = found.contour
    /\ ppc' = "polygon"
    /\ MeshFrame
    /\ UNCHANGED <<triangulation, side_i, side_triangles, side_normals, mesh,
                   presult>>

\* lib.rs 43: Polygon::new returns Err and unwrap() panics.  Fewer than 3
\* points are always refused; the constructor's other checks (duplicate points,
\* self-intersection) are its own, so a longer contour may be refused too
PolygonRefused ==
    /\ ppc = "polygon"
    /\ ppc' = "done"
    /\ presult' = "Panic"
    /\ MeshFrame
    /\ UNCHANGED <<pcontour, triangulation, side_i, side_triangles,
                   side_normals, mesh>>

\* lib.rs 43-48: the polygon is accepted and triangulated
PolygonTriangulated ==
    /\ ppc = "polygon"
    /\ n_points >= 3
    /\ triangulation' \in EarClips([i \in 1..n_points |-> i - 1])
    /\ side_i' = 0
    /\ ppc' = "sides"
    /\ MeshFrame
    /\ UNCHANGED <<pcontour, side_triangles, side_normals, mesh, presult>>

\* lib.rs 74-96: one iteration of the side loop
SideStep ==
    /\ ppc = "sides"
    /\ side_i < n_points
    /\ side_triangles' = side_triangles \o SideTrianglesOf(side_i, n_points)
    /\ side_normals' = Append(side_normals, SideNormalOf(pcontour, side_i))
    /\ side_i' = side_i + 1
    /\ MeshFrame
    /\ UNCHANGED <<ppc, pcontour, triangulation, mesh, presult>>

\* lib.rs 45-69 (the iterators built before the loop) and 98-105
Assemble ==
    /\ ppc = "sides"
    /\ side_i = n_points
    /\ LET n == n_points
           T == Len(triangulation)
           front_vertices == [i \in 1..n |-> FrontVertex(pcontour[i])]
           back_vertices ==
               [i \in 1..n |-> BackVertex(pcontour[i], params.thickness)]
           front_triangles == [k \in 1..T |-> FrontTriangle(triangulation[k])]
           back_triangles == [k \in 1..T |-> BackTriangle(triangulation[k], n)]
           uvs == IF params.include_uvs
                  THEN [i \in 1..n |-> UvVertex(pcontour[i])]
                       \o [i \in 1..n |-> UvVertex(pcontour[i])]
                  ELSE <<>>
           front_normal == [normal_0 |-> <<0, 0>>, normal_1 |-> <<0, 0>>,
                            z |-> FromInt(-1)]
           back_normal == [normal_0 |-> <<0, 0>>, normal_1 |-> <<0, 0>>,
                           z |-> FromInt(1)]
           main_normals == [i \in 1..n |-> front_normal]
                           \o [i \in 1..n |-> back_normal]
       IN  mesh' = [vertices |-> front_vertices \o back_vertices,
                    triangles |-> (front_triangles \o back_triangles)
                                  \o side_triangles,
                    uv_vertices |-> uvs,
                    normals |-> main_normals \o side_normals]
    /\ presult' = "Ok"
    /\ ppc' = "done"
    /\ MeshFrame
    /\ UNCHANGED <<pcontour, triangulation, side_i, side_triangles,
                   side_normals>>

MeshNext ==
    \/ ContourFails
    \/ ContourFound
    \/ PolygonRefused
    \/ PolygonTriangulated
    \/ SideStep
    \/ Assemble

SpecMesh == MeshInit /\ [][MeshNext]_vars

----------------------------------------------------------------------------
(* Properties of create_mesh_from_image *)

\* the vertex indices of a triangle, and its directed edges
TriVerts(t) == <<t[1][1], t[2][1], t[3][1]>>
EdgesOf(t) ==
    LET v == TriVerts(t) IN {<<v[1], v[2]>>, <<v[2], v[3]>>, <<v[3], v[1]>>}
EdgeCount(e) ==
    Cardinality({k \in DOMAIN mesh.triangles : e \in EdgesOf(mesh.triangles[k])})

\* a triangle of a cap has its three vertices in one ring (0..n-1 or n..2n-1),
\* a triangle of the side wall has vertices in both
IsCap(t, n) ==
    LET v == TriVerts(t)
    IN  \/ \A j \in 1..3 : v[j] < n
        \/ \A j \in 1..3 : v[j] >= n

\* C4: a contour of fewer than 3 points, or a polygon the constructor refuses,
\* makes create_mesh_from_image return Err: it does not panic and returns no mesh
C4_DegenerateIsErr ==
    /\ presult # "Panic"
    /\ (ppc = "done" /\ found.ok /\ Len(found.contour) < 3) => presult = "Err"

\* C7: the side normal of point i is the half sum of two unit vectors, the
\* first perpendicular to the edge into i, the second to the edge out of i,
\* with z = 0 (for edges of non-zero length)
C7_SideNormalsPerpendicular ==
    \A k \in DOMAIN side_normals :
        LET n == Len(pcontour)
            prev == IF k = 1 THEN n ELSE k - 1
            next == (k % n) + 1
            edge_in == Direction(Sub(pcontour[k], pcontour[prev]))
            edge_out == Direction(Sub(pcontour[next], pcontour[k]))
            n0 == side_normals[k].normal_0
            n1 == side_normals[k].normal_1
        IN  (edge_in # <<0, 0>> /\ edge_out # <<0, 0>>) =>
                /\ n0 # <<0, 0>> /\ n1 # <<0, 0>>
                /\ n0[1] * edge_in[1] + n0[2] * edge_in[2] = 0
                /\ n1[1] * edge_out[1] + n1[2] * edge_out[2] = 0
                /\ side_normals[k].z = FromInt(0)

\* C8: in a returned mesh every directed edge of every triangle occurs once
\* and its reverse occurs once; the two triangles of each side quad cover
\* front[i], front[next], back[next], back[i] and share their diagonal in
\* opposite directions; each front cap triangle is its back cap triangle with
\* the winding reversed
C8_Watertight ==
    presult = "Ok" =>
        LET n == Len(pcontour)
            T == Len(triangulation)
            tri == mesh.triangles
        IN  /\ \A k \in DOMAIN tri : \A e \in EdgesOf(tri[k]) :
                    EdgeCount(e) = 1 /\ EdgeCount(<<e[2], e[1]>>) = 1
            /\ \A i \in 0..(n - 1) :
                    LET a == tri[2 * T + 2 * i + 1]
                        b == tri[2 * T + 2 * i + 2]
                        next == (i + 1) % n
                    IN  /\ {TriVerts(a)[j] : j \in 1..3}
                              \cup {TriVerts(b)[j] : j \in 1..3}
                           = {i, next, next + n, i + n}
                        /\ \E e \in EdgesOf(a) : <<e[2], e[1]>> \in EdgesOf(b)
            /\ \A k \in 1..T :
                    LET f == TriVerts(tri[k])
                        b == TriVerts(tri[T + k])
                    IN  b = <<f[1] + n, f[3] + n, f[2] + n>>

\* C14: in a returned mesh, with or without UVs, every index of every triangle
\* corner is in range: the vertex index below vertices.len(), the normal index
\* below normals.len(), the texture index below uv_vertices.len()
C14_IndicesInRange ==
    presult = "Ok" =>
        \A k \in DOMAIN mesh.triangles : \A j \in 1..3 :
            LET corner == mesh.triangles[k][j]
            IN  /\ corner[1] >= 0 /\ corner[1] < Len(mesh.vertices)
                /\ corner[2] >= 0 /\ corner[2] < Len(mesh.uv_vertices)
                /\ corner[3] >= 0 /\ corner[3] < Len(mesh.normals)

\* a returned mesh of a 4-point contour
C8_Witness ==
    /\ presult = "Ok"
    /\ Len(pcontour) = 4
    /\ Len(mesh.triangles) = 12

\* C10: a returned mesh has 2n vertices, the first n at z = 0, the last n at
\* z = thickness, vertex i + n over vertex i; 2T cap triangles and 2n side
\* triangles
C10_Counts ==
    presult = "Ok" =>
        LET n == Len(pcontour)
            T == Len(triangulation)
            caps == {k \in DOMAIN mesh.triangles : IsCap(mesh.triangles[k], n)}
            sides == DOMAIN mesh.triangles \ caps
        IN  /\ Len(mesh.vertices) = 2 * n
            /\ \A i \in 1..n :
                    /\ mesh.vertices[i].z = FromInt(0)
                    /\ mesh.vertices[i + n].z = params.thickness
                    /\ mesh.vertices[i + n].x = mesh.vertices[i].x
                    /\ mesh.vertices[i + n].y = mesh.vertices[i].y
                    /\ mesh.vertices[i].x = RSub(Rat(1, 2), pcontour[i][1])
                    /\ mesh.vertices[i].y = RSub(Rat(1, 2), pcontour[i][2])
            /\ Cardinality(caps) = 2 * T
            /\ Cardinality(sides) = 2 * n
            /\ (n = 4 /\ T = 2) =>
                    /\ Len(mesh.vertices) = 8
                    /\ Cardinality(caps) = 4
                    /\ Cardinality(sides) = 8

\* the mesh of the unit square with its two-triangle triangulation
C10_Witness ==
    /\ presult = "Ok"
    /\ pcontour = <<Pt(0, 0), Pt(1, 0), Pt(1, 1), Pt(0, 1)>>
    /\ Len(triangulation) = 2
    /\ Len(mesh.vertices) = 8

====
